---- MODULE Spec2Model ----
(***************************************************************************)
(* Model of the resumable batch-transfer pipeline of tts-explorations:     *)
(* scripts/s3_batcher.py (BatcherState, S3Batcher), scripts/progress.py    *)
(* (ProgressInfo) and the part of scripts/preprocessor.py that decides     *)
(* which staged files are processed and how the output files are named.    *)
(*                                                                         *)
(* Strings are sequences of one-character strings, so that lower(),        *)
(* startswith(), endswith() and the listing order of the object store are  *)
(* computed and not assumed.                                               *)
(***************************************************************************)
EXTENDS Integers, Sequences, FiniteSets, TLC

\* ------------------------------------------------------------------ bounds
\* Largest batch_size the constructor is given (validate: batch_size > 0).
MaxBatchSize == 2
\* Page size of a listing request. The program asks for 1000 keys a page
\* (to_params: "MaxKeys": 1000, and the test len(batch) < 1000); the model
\* scales that one number down.
MaxKeys == 2
\* next_batch() calls over all processes of a behaviour.
MaxCycles == 3
\* Incidents in a behaviour: failing remote calls (list, fetch, push) and
\* process terminations (crash, kill, interrupt).
MaxIncidents == 1
\* Chunks the processing step writes for one staged file.
MaxChunks == 1
\* Keys a ledger of the ledger-level specification holds (both lists).
MaxLedgerLen == 2
\* increment_progress() calls on one ProgressInfo of that specification.
MaxLedgerBatches == 1
\* The largest total_expected given to the constructor there.
MaxTotal == 1
\* Chunks the processing step writes for one staged file in the
\* specification of recordings that are split.
MaxSplit == 2

\* ----------------------------------------------------------------- strings
\* The characters of the keys of the model, in ascending code-point order
\* (the object store lists keys in UTF-8 binary order).
Alphabet ==
  << "-", ".", "/", "0", "1", "2", "3", "4", "5", "6", "7", "8", "9",
     "A", "B", "T", "V", "W", "X",
     "_",
     "a", "b", "c", "d", "e", "g", "h", "i", "j", "k", "m", "n", "o", "p",
     "r", "s", "t", "u", "v", "w", "x" >>

Ord(c) == CHOOSE i \in 1..Len(Alphabet) : Alphabet[i] = c

\* str.lower() on one character.
LowerChar(c) ==
  CASE c = "A" -> "a" [] c = "B" -> "b" [] c = "T" -> "t" [] c = "V" -> "v"
    [] c = "W" -> "w" [] c = "X" -> "x" [] OTHER -> c

\* str.lower()
Lower(s) == [i \in 1..Len(s) |-> LowerChar(s[i])]

\* str.startswith(p)
StartsWith(s, p) == Len(p) <= Len(s) /\ SubSeq(s, 1, Len(p)) = p

\* str.endswith(e)
EndsWith(s, e) == Len(e) <= Len(s) /\ SubSeq(s, Len(s) - Len(e) + 1, Len(s)) = e

\* str.endswith(tuple): true when one of the suffixes matches.
EndsWithAny(s, exts) == \E i \in 1..Len(exts) : EndsWith(s, exts[i])

\* Binary (code point) order of two strings.
RECURSIVE LexLess(_, _)
LexLess(a, b) ==
  IF b = <<>> THEN FALSE
  ELSE IF a = <<>> THEN TRUE
  ELSE IF a[1] # b[1] THEN Ord(a[1]) < Ord(b[1])
  ELSE LexLess(Tail(a), Tail(b))

\* Number of occurrences of x in the sequence s.
Count(s, x) == Cardinality({i \in 1..Len(s) : s[i] = x})

\* The set of the elements of a sequence.
Range(s) == {s[i] : i \in 1..Len(s)}

Min(a, b) == IF a < b THEN a ELSE b

\* ------------------------------------------------------------ configuration
\* include_ext: the constructor's default, the only value the program uses.
include_ext == << <<".", "w", "a", "v">> >>

\* --s3_processed_prefix as given on the command line of the modelled runs.
processed_prefix == <<"o", "u", "t">>

\* metadata_prefix: the constructor's default.
metadata_prefix == <<"m", "e", "t", "a", "d", "a", "t", "a">>

\* ignore_prefixes without the prefix of the processed output.
ignore_prefixes_without_processed == { metadata_prefix \o <<"/">> }

\* self.ignore_prefixes = [f"{metadata_prefix}/", f"{processed_prefix}/"]
ignore_prefixes == { metadata_prefix \o <<"/">>, processed_prefix \o <<"/">> }

\* ---------------------------------------------------------------- the keys
K_in1  == <<"i", "n", "/", "1", ".", "w", "a", "v">>
K_in2  == <<"i", "n", "/", "2", ".", "w", "a", "v">>
K_in3t == <<"i", "n", "/", "3", ".", "t", "x", "t">>
K_out1 == <<"o", "u", "t", "/", "1", ".", "w", "a", "v">>
K_a    == <<"a", ".", "w", "a", "v">>
K_at   == <<"a", ".", "t", "x", "t">>
K_bW   == <<"b", ".", "W", "A", "V">>
K_c    == <<"c", ".", "w", "a", "v">>

\* The remote namespaces a behaviour may start from.
Namespaces ==
  { {},
    {K_in1, K_in2, K_out1, K_in3t},
    {K_at, K_a, K_bW, K_c} }

\* The files of the metadata directory: text and wav.scp, which
\* Preprocessor.init_files() creates, the CSV file the driver opens, and the
\* two state files.
F_text  == <<"t", "e", "x", "t">>
F_scp   == <<"w", "a", "v", ".", "s", "c", "p">>
F_csv   == <<"m", "e", "t", "a", "d", "a", "t", "a", ".", "c", "s", "v">>
F_state == <<"b", "a", "t", "c", "h", "e", "r", "_", "s", "t", "a", "t", "e",
             ".", "j", "s", "o", "n">>
F_prog  == <<"p", "r", "o", "g", "r", "e", "s", "s", ".", "j", "s", "o", "n">>

\* ------------------------------------------------------------------- state
VARIABLES
  batch_size,     \* S3Batcher.batch_size (constructor argument)
  bucket,         \* the keys of the remote namespace
  state_file,     \* batcher_state.json: <<>> when absent, else <<record>>
  progress_file,  \* progress.json: <<>> when absent, else <<record>>
  download_to,    \* inbound staging directory: relative paths of its files
  upload_from,    \* outbound staging directory: names of its files
  pc,             \* "idle", "loop", "save" (inside next_batch) or "dead"
  phase,          \* the caller's place in a cycle: "staged" after
                  \* next_batch(), "processed" after the processing step,
                  \* "ready" after upload() (and at the start)
  state,          \* S3Batcher.state: [token, completed]
  count,          \* S3Batcher.count
  total,          \* S3Batcher.total
  progress,       \* S3Batcher.progress: the ProgressInfo fields
  fetched,        \* history: keys whose download_file call succeeded
  pushed,         \* history: keys whose upload_file call succeeded
  unflushed,      \* history: keys appended in memory and lost by a crash
  faults,         \* history: failed calls so far (remote calls, and the
                  \* local steps that raise)
  crashes,        \* history: process terminations so far
  nNext,          \* history: next_batch() calls so far
  pages,          \* history: listing pages consumed by the current next_batch()
  cycleKeys,      \* history: keys appended by the current next_batch()
  lastPage,       \* history: Contents of the last listing response
  opsAfter,       \* history: operations called on this instance while
                  \* has_next() was False
  failed_batches, \* the driver's failed_batches counter
  raised,         \* history: exceptions that reached the driver of this process
  pushCount,      \* history: per key, the upload_file calls of upload() that
                  \* succeeded
  ledgerOp,       \* history of the ledger-level specification: its last
                  \* step, "new" after ProgressInfo.__init__
  lastToken,      \* history: <<>> before the first listing response on
                  \* this metadata path, else <<t>> with t the
                  \* NextContinuationToken of the most recent one
  dry_run,        \* S3Batcher.dry_run (constructor argument)
  dry_run_batches_processed
                  \* S3Batcher._dry_run_batches_processed (0 when the
                  \* batcher is not in dry-run mode, where it is not set)

vars ==
  << batch_size, bucket, state_file, progress_file, download_to, upload_from,
     pc, phase, state, count, total, progress, fetched, pushed,
     unflushed, faults, crashes, nNext, pages, cycleKeys, lastPage,
     opsAfter, failed_batches, raised, pushCount, ledgerOp, lastToken,
                  dry_run, dry_run_batches_processed >>

\* None, for the continuation token.
NoToken == <<>>

\* ------------------------------------------------------------ local staging
HasSlash(f) == \E i \in 1..Len(f) : f[i] = "/"

\* Path.glob("*.wav") on a directory: the files directly in it whose name
\* ends with ".wav" (the match is case-sensitive).
glob_wav(dir) ==
  {f \in dir : ~HasSlash(f) /\ EndsWith(f, <<".", "w", "a", "v">>)}

\* re.sub(r"[^a-z0-9]", "_", name.lower())
clean_name(name) ==
  [i \in 1..Len(name) |->
     IF LowerChar(name[i]) \in
          { "a", "b", "c", "d", "e", "g", "h", "i", "j", "k", "m", "n", "o",
            "p", "r", "s", "t", "u", "v", "w", "x",
            "0", "1", "2", "3", "4", "5", "6", "7", "8", "9" }
     THEN LowerChar(name[i]) ELSE "_"]

\* f"{i:04d}" for i < 10
Pad4(i) == <<"0", "0", "0", Alphabet[Ord("0") + i]>>

\* The output file split_audio writes for chunk i of a staged file:
\* f"{clean_name}_chunk-{i:04d}.wav"
chunk_file(name, i) ==
  clean_name(name) \o <<"_", "c", "h", "u", "n", "k", "-">> \o Pad4(i)
    \o <<".", "w", "a", "v">>

\* key = f"{self.processed_prefix}/{audio_path.name}" of upload()
upload_key(name) == processed_prefix \o <<"/">> \o name

\* The files of the metadata directory.
metadata_dir ==
  {F_text, F_scp, F_csv}
    \cup (IF state_file = <<>> THEN {} ELSE {F_state})
    \cup (IF progress_file = <<>> THEN {} ELSE {F_prog})

\* The files upload_metadata() collects: file.endswith(('.json', '.csv',
\* '.txt', '.scp'))
metadata_files ==
  {f \in metadata_dir :
     EndsWithAny(f, << <<".", "j", "s", "o", "n">>, <<".", "c", "s", "v">>,
                       <<".", "t", "x", "t">>, <<".", "s", "c", "p">> >>)}

\* s3_key = os.path.join(self.metadata_prefix, file) of upload_metadata()
metadata_key(file) == metadata_prefix \o <<"/">> \o file


\* Every key the remote namespace of a behaviour can hold.
Universe ==
  LET inputs == UNION Namespaces
  IN  inputs
        \cup {upload_key(chunk_file(f, i)) :
                f \in glob_wav(inputs),
                i \in 0..(IF MaxChunks < MaxSplit THEN MaxSplit - 1
                          ELSE MaxChunks - 1)}
        \cup {metadata_key(f) : f \in {F_text, F_scp, F_csv, F_state, F_prog}}

\* The place of each key in the binary order of the namespace.
Rank == [k \in Universe |-> Cardinality({j \in Universe : LexLess(j, k)})]

\* The elements of a set of keys, in ascending binary order.
RECURSIVE SortKeys(_)
SortKeys(S) ==
  IF S = {} THEN <<>>
  ELSE LET m == CHOOSE x \in S : \A y \in S : Rank[x] <= Rank[y]
       IN  <<m>> \o SortKeys(S \ {m})

\* -------------------------------------------------------------- BatcherState
\* BatcherState.__init__ followed by load(): the token is read back from the
\* file, the completed flag is not.
BatcherState_load(file) ==
  [ token     |-> IF file = <<>> THEN NoToken ELSE file[1].token,
    completed |-> FALSE ]

\* BatcherState.to_dict / save: the record written to batcher_state.json.
BatcherState_save(st) == << [token |-> st.token, completed |-> st.completed] >>

\* token_from_response keeping the token it had.
token_from_response_keeps_token(st, resp) ==
  [ token     |-> IF resp.NextContinuationToken = NoToken THEN NoToken
                  ELSE st.token,
    completed |-> IF resp.NextContinuationToken = NoToken THEN TRUE
                  ELSE st.completed ]

\* BatcherState.token_from_response
token_from_response(st, resp) ==
  [ token     |-> resp.NextContinuationToken,
    completed |-> IF resp.NextContinuationToken = NoToken THEN TRUE
                  ELSE st.completed ]

\* BatcherState.has_token
has_token(st) == st.token # NoToken

\* S3Batcher.empty_batch
empty_batch(st) == [token |-> NoToken, completed |-> TRUE]

\* S3Batcher.__init__: _dry_run_total_batches, the ceiling of
\* total / batch_size.
dry_run_total_batches == (total + batch_size - 1) \div batch_size

\* S3Batcher.has_next
has_next ==
  IF dry_run THEN dry_run_batches_processed < dry_run_total_batches
  ELSE ~state.completed

\* ------------------------------------------------------------- ProgressInfo
\* ProgressInfo.__init__
ProgressInfo_init(total_expected) ==
  [ downloaded_keys      |-> <<>>,
    uploaded_keys        |-> <<>>,
    total_expected       |-> total_expected,
    total_chunks         |-> 0,
    batch_count          |-> 0,
    before_process_count |-> 0,
    after_process_count  |-> 0 ]

\* ProgressInfo.append_dowloaded
append_dowloaded(p, key) ==
  [p EXCEPT !.downloaded_keys = Append(@, key)]

\* append_uploaded raising total_chunks by two.
append_uploaded_counts_twice(p, key) ==
  [p EXCEPT !.uploaded_keys = Append(@, key), !.total_chunks = @ + 2]

\* ProgressInfo.append_uploaded
append_uploaded(p, key) ==
  [p EXCEPT !.uploaded_keys = Append(@, key), !.total_chunks = @ + 1]

\* ProgressInfo.increment_progress
increment_progress(p) ==
  [p EXCEPT !.batch_count = @ + 1,
            !.before_process_count = Len(p.downloaded_keys),
            !.after_process_count = Len(p.uploaded_keys)]

\* ProgressInfo.to_dict: the dictionary that json.dump writes.
to_dict(p) ==
  [ downloaded_keys      |-> p.downloaded_keys,
    uploaded_keys        |-> p.uploaded_keys,
    total_expected       |-> p.total_expected,
    total_chunks         |-> p.total_chunks,
    batch_count          |-> p.batch_count,
    before_process_count |-> p.before_process_count,
    after_process_count  |-> p.after_process_count ]

\* ProgressInfo.save: progress.json is replaced by the dictionary of to_dict.
ProgressInfo_save(p) == << to_dict(p) >>

\* The content of a progress.json that is not a JSON object: json.load or
\* the first data.get raises.
Unparsable == [ unparsable |-> TRUE ]

\* json.load taking every content for a dictionary.
json_load_ok_whatever_the_content(content) == TRUE

\* json.load and the first data.get succeed: the content is a JSON object.
json_load_ok(content) == content # Unparsable

\* dict.get(key, default)
Get(data, key, default) == IF key \in DOMAIN data THEN data[key] ELSE default

\* ProgressInfo.load with total_expected kept from the constructor.
ProgressInfo_load_keeps_total(p, file) ==
  IF file = <<>> \/ ~json_load_ok(file[1]) THEN p
  ELSE LET data == file[1]
       IN  [ downloaded_keys      |-> Get(data, "downloaded_keys", <<>>),
             uploaded_keys        |-> Get(data, "uploaded_keys", <<>>),
             total_expected       |-> p.total_expected,
             total_chunks         |-> Get(data, "total_chunks", 0),
             batch_count          |-> Get(data, "batch_count", 0),
             before_process_count |-> Get(data, "before_process_count", 0),
             after_process_count  |-> Get(data, "after_process_count", 0) ]

\* ProgressInfo.load leaving total_chunks of the object as it is.
ProgressInfo_load_keeps_total_chunks(p, file) ==
  IF file = <<>> \/ ~json_load_ok(file[1]) THEN p
  ELSE LET data == file[1]
       IN  [ downloaded_keys      |-> Get(data, "downloaded_keys", <<>>),
             uploaded_keys        |-> Get(data, "uploaded_keys", <<>>),
             total_expected       |-> Get(data, "total_expected", p.total_expected),
             total_chunks         |-> p.total_chunks,
             batch_count          |-> Get(data, "batch_count", 0),
             before_process_count |-> Get(data, "before_process_count", 0),
             after_process_count  |-> Get(data, "after_process_count", 0) ]

\* ProgressInfo.load: nothing changes when the file is absent or when
\* reading it raises (the except clause only logs); else every field is
\* taken from the dictionary, with its default when the key is missing.
ProgressInfo_load(p, file) ==
  IF file = <<>> \/ ~json_load_ok(file[1]) THEN p
  ELSE LET data == file[1]
       IN  [ downloaded_keys      |-> Get(data, "downloaded_keys", <<>>),
             uploaded_keys        |-> Get(data, "uploaded_keys", <<>>),
             total_expected       |-> Get(data, "total_expected", p.total_expected),
             total_chunks         |-> Get(data, "total_chunks", 0),
             batch_count          |-> Get(data, "batch_count", 0),
             before_process_count |-> Get(data, "before_process_count", 0),
             after_process_count  |-> Get(data, "after_process_count", 0) ]

\* ------------------------------------------------------------- remote store
\* S3Batcher.to_params: the ContinuationToken sent, NoToken when none is.
to_params(st) == IF has_token(st) THEN st.token ELSE NoToken

\* list_objects_v2(Bucket, MaxKeys, ContinuationToken): the keys after the
\* token in binary order, at most MaxKeys of them, and a continuation token
\* (the last key returned) exactly when keys remain.
list_objects_v2(keys, token) ==
  LET all  == SortKeys(keys)
      rest == SelectSeq(all, LAMBDA k : token = NoToken \/ LexLess(token, k))
      page == SubSeq(rest, 1, Min(MaxKeys, Len(rest)))
  IN  [ Contents              |-> page,
        NextContinuationToken |-> IF Len(rest) > MaxKeys THEN page[Len(page)]
                                  ELSE NoToken ]

\* ---------------------------------------------------------------- filtering
\* is_valid_file comparing the key as it is, not lowercased.
is_valid_file_case_sensitive(key) ==
  /\ ~(include_ext # <<>> /\ ~EndsWithAny(key, include_ext))
  /\ ~(\E p \in ignore_prefixes : StartsWith(key, p))

\* The two filters of download_batch_files: True when the key is kept.
is_valid_file(key) ==
  /\ ~(include_ext # <<>> /\ ~EndsWithAny(Lower(key), include_ext))
  /\ ~(\E p \in ignore_prefixes : StartsWith(key, p))

\* valid_files keeping every entry of the page.
valid_files_unfiltered(batch) == batch

\* valid_files of download_batch_files
valid_files(batch) == SelectSeq(batch, is_valid_file)

\* The same two filters as counter() writes them.
counter_accepts(key) ==
  /\ ~(include_ext # <<>> /\ ~EndsWithAny(Lower(key), include_ext))
  /\ ~(\E p \in ignore_prefixes : StartsWith(key, p))

\* S3Batcher.counter: the number of keys of the namespace its filters keep;
\* 0 when a listing call fails.
counter(keys, ok) ==
  IF ok THEN Len(SelectSeq(SortKeys(keys), counter_accepts)) ELSE 0

\* files_to_download without the limit to the budget left.
files_to_download_unlimited(valid, cnt) == Len(valid)

\* files_to_download of download_batch_files
files_to_download(valid, cnt) == Min(Len(valid), batch_size - cnt)

\* The keys download_batch_files tries to fetch from one page.
selected_files(batch, cnt) ==
  LET valid == valid_files(batch)
  IN  SubSeq(valid, 1, files_to_download(valid, cnt))

\* downloaded_files with the loop ending at the first download_file call
\* that raises.
downloaded_files_until_failure(batch, cnt, failing) ==
  LET sel == selected_files(batch, cnt)
      bad == {i \in 1..Len(sel) : sel[i] \in failing}
  IN  SubSeq(sel, 1, IF bad = {} THEN Len(sel)
                     ELSE (CHOOSE i \in bad : \A j \in bad : i <= j) - 1)

\* The keys of one page whose download_file call succeeds, in order, when
\* the calls for the keys of `failing` raise.
downloaded_files(batch, cnt, failing) ==
  SelectSeq(selected_files(batch, cnt), LAMBDA k : k \notin failing)

\* Appending a sequence of keys with append_dowloaded, one call a key.
RECURSIVE append_all_dowloaded(_, _)
append_all_dowloaded(p, ks) ==
  IF ks = <<>> THEN p
  ELSE append_all_dowloaded(append_dowloaded(p, Head(ks)), Tail(ks))

\* Appending a sequence of keys with append_uploaded, one call a key.
RECURSIVE append_all_uploaded(_, _)
append_all_uploaded(p, ks) ==
  IF ks = <<>> THEN p
  ELSE append_all_uploaded(append_uploaded(p, Head(ks)), Tail(ks))

\* No upload_file call of upload() has succeeded yet.
NoPushes == [k \in {} |-> 0]

\* The history of successful upload_file calls after one more for each key
\* of ks.
count_push(f, ks) ==
  [k \in DOMAIN f \cup ks |->
     (IF k \in DOMAIN f THEN f[k] ELSE 0) + (IF k \in ks THEN 1 ELSE 0)]

\* -------------------------------------------------------------------- Init
\* A first process has just constructed its S3Batcher on an empty metadata
\* path; the staging directories exist and are empty.
Init ==
  /\ batch_size \in 1..MaxBatchSize
  /\ bucket \in Namespaces
  /\ state_file = <<>>
  /\ progress_file = <<>>
  /\ download_to = {}
  /\ upload_from = {}
  /\ pc = "idle"
  /\ phase = "ready"
  /\ state = BatcherState_load(<<>>)
  /\ count = 0
  /\ total = counter(bucket, TRUE)
  /\ progress = ProgressInfo_init(total)
  /\ fetched = {}
  /\ pushed = {}
  /\ unflushed = {}
  /\ faults = 0
  /\ crashes = 0
  /\ nNext = 0
  /\ pages = 0
  /\ cycleKeys = <<>>
  /\ lastPage = <<>>
  /\ opsAfter = {}
  /\ failed_batches = 0
  /\ raised = 0
  /\ pushCount = NoPushes
  /\ ledgerOp = "new"
  /\ lastToken = <<>>
  /\ dry_run = FALSE
  /\ dry_run_batches_processed = 0

\* The history of the operations called while has_next() is False.
NoteOp(op) == opsAfter' = IF has_next THEN opsAfter ELSE opsAfter \cup {op}

\* --------------------------------------------------------------- next_batch
\* NextBatchBegin with the BatcherState read again from its file.
NextBatchBegin_reloads_state ==
  /\ pc = "idle"
  /\ nNext < MaxCycles
  /\ nNext' = nNext + 1
  /\ count' = 0
  /\ download_to' = {}
  /\ upload_from' = {}
  /\ progress' = ProgressInfo_load(progress, progress_file)
  /\ state' = BatcherState_load(state_file)
  /\ pc' = "loop"
  /\ pages' = 0
  /\ cycleKeys' = <<>>
  /\ NoteOp("next_batch")
  /\ UNCHANGED << batch_size, bucket, state_file, progress_file, phase, total,
                  fetched, pushed, unflushed, faults, crashes, lastPage >>
  /\ UNCHANGED << failed_batches, raised, pushCount, ledgerOp, lastToken,
                  dry_run, dry_run_batches_processed >>

\* NextBatchBegin without clear_local_dirs().
NextBatchBegin_keeps_staging ==
  /\ pc = "idle"
  /\ nNext < MaxCycles
  /\ nNext' = nNext + 1
  /\ count' = 0
  /\ progress' = ProgressInfo_load(progress, progress_file)
  /\ pc' = "loop"
  /\ pages' = 0
  /\ cycleKeys' = <<>>
  /\ NoteOp("next_batch")
  /\ UNCHANGED << download_to, upload_from, batch_size, bucket, state_file, progress_file, phase, state,
                  total, fetched, pushed, unflushed, faults,
                  crashes, lastPage >>
  /\ UNCHANGED << failed_batches, raised, pushCount, ledgerOp, lastToken,
                  dry_run, dry_run_batches_processed >>

\* next_batch(), preparation: self.count = 0, clear_local_dirs(),
\* self.progress.load(). self.state is left as it is.
NextBatchBegin ==
  /\ pc = "idle"
  /\ nNext < MaxCycles
  /\ nNext' = nNext + 1
  /\ count' = 0
  /\ download_to' = {}
  /\ upload_from' = {}
  /\ progress' = ProgressInfo_load(progress, progress_file)
  /\ pc' = "loop"
  /\ pages' = 0
  /\ cycleKeys' = <<>>
  /\ NoteOp("next_batch")
  /\ UNCHANGED << batch_size, bucket, state_file, progress_file, phase, state,
                  total, fetched, pushed, unflushed, faults,
                  crashes, lastPage >>
  /\ UNCHANGED << failed_batches, raised, pushCount, ledgerOp, lastToken,
                  dry_run, dry_run_batches_processed >>

\* The condition of the main download loop.
loop_condition == count < batch_size /\ ~state.completed

\* NextBatchListFails with the exception ending the run uncounted.
NextBatchListFails_aborts ==
  /\ pc = "loop"
  /\ loop_condition
  /\ faults + crashes < MaxIncidents
  /\ faults' = faults + 1
  /\ pc' = "dead"
  /\ phase' = "ready"
  /\ raised' = raised + 1
  /\ UNCHANGED << batch_size, bucket, state_file, progress_file, download_to,
                  upload_from, state, count, total, progress, fetched, pushed,
                  unflushed, crashes, nNext, pages, cycleKeys, lastPage,
                  opsAfter, failed_batches, pushCount, ledgerOp, lastToken,
                  dry_run, dry_run_batches_processed >>

\* One iteration of the loop whose list_objects_v2 call raises: the
\* exception leaves next_batch(), state.save() is not reached. The driver's
\* except clause counts the cycle as failed and goes back to the loop test.
NextBatchListFails ==
  /\ pc = "loop"
  /\ loop_condition
  /\ faults + crashes < MaxIncidents
  /\ faults' = faults + 1
  /\ pc' = "idle"
  /\ phase' = "ready"
  /\ UNCHANGED << batch_size, bucket, state_file, progress_file, download_to,
                  upload_from, state, count, total, progress, fetched, pushed, unflushed, crashes, nNext,
                  pages, cycleKeys, lastPage, opsAfter >>
  /\ failed_batches' = failed_batches + 1
  /\ raised' = raised + 1
  /\ UNCHANGED << pushCount, ledgerOp, lastToken,
                  dry_run, dry_run_batches_processed >>

\* One iteration of the loop on a page without Contents: empty_batch(), break.
NextBatchListEmpty ==
  /\ pc = "loop"
  /\ loop_condition
  /\ \E resp \in {list_objects_v2(bucket, to_params(state))} :
         /\ resp.Contents = <<>>
         /\ state' = empty_batch(token_from_response(state, resp))
         /\ lastPage' = resp.Contents
         /\ lastToken' = << resp.NextContinuationToken >>
  /\ pages' = pages + 1
  /\ pc' = "save"
  /\ UNCHANGED << batch_size, bucket, state_file, progress_file, download_to,
                  upload_from, phase, count, total, progress, fetched, pushed, unflushed, faults, crashes, nNext, cycleKeys, opsAfter >>
  /\ UNCHANGED << failed_batches, raised, pushCount, ledgerOp, dry_run,
                  dry_run_batches_processed >>

\* One iteration of the loop on a page with Contents: token_from_response,
\* download_batch_files, then continue or break. The download_file calls of
\* the keys of `failing` raise.
NextBatchListPage ==
  /\ pc = "loop"
  /\ loop_condition
  /\ \E resp \in {list_objects_v2(bucket, to_params(state))} :
     LET batch == resp.Contents
     IN  /\ batch # <<>>
         /\ \E failing \in SUBSET Range(selected_files(batch, count)) :
              \E got \in {downloaded_files(batch, count, failing)} :
                  /\ Cardinality(failing) <= MaxIncidents - faults - crashes
                  /\ faults' = faults + Cardinality(failing)
                  /\ state' = token_from_response(state, resp)
                  /\ count' = count + Len(got)
                  /\ progress' = append_all_dowloaded(progress, got)
                  /\ download_to' = download_to \cup Range(got)
                  /\ fetched' = fetched \cup Range(got)
                  /\ cycleKeys' = cycleKeys \o got
                  /\ pc' = IF Len(got) = 0 THEN "loop"
                           ELSE IF count' >= batch_size \/ Len(batch) < MaxKeys
                                THEN "save" ELSE "loop"
         /\ lastPage' = batch
         /\ lastToken' = << resp.NextContinuationToken >>
  /\ pages' = pages + 1
  /\ UNCHANGED << batch_size, bucket, state_file, progress_file, upload_from,
                  phase, total, pushed, unflushed, crashes, nNext,
                  opsAfter >>
  /\ UNCHANGED << failed_batches, raised, pushCount, ledgerOp, dry_run,
                  dry_run_batches_processed >>

\* The end of next_batch(): the loop has ended, self.state.save().
NextBatchSave ==
  /\ pc = "save" \/ (pc = "loop" /\ ~loop_condition)
  /\ state_file' = BatcherState_save(state)
  /\ pc' = "idle"
  /\ phase' = "staged"
  /\ UNCHANGED << batch_size, bucket, progress_file, download_to, upload_from,
                  state, count, total, progress, fetched, pushed,
                  unflushed, faults, crashes, nNext, pages, cycleKeys,
                  lastPage, opsAfter >>
  /\ UNCHANGED << failed_batches, raised, pushCount, ledgerOp, lastToken,
                  dry_run, dry_run_batches_processed >>

\* ---------------------------------------------------------- processing step
\* Preprocessor.preprocess(): every file that glob("*.wav") finds in the
\* inbound directory yields between 0 and MaxChunks output files (the
\* transcription decides how many).
Process ==
  /\ pc = "idle"
  /\ phase = "staged"
  /\ phase' = "processed"
  /\ \E n \in [glob_wav(download_to) -> 0..MaxChunks] :
       upload_from' = upload_from \cup
         UNION { {chunk_file(f, i) : i \in 0..(n[f] - 1)} :
                 f \in glob_wav(download_to) }
  /\ UNCHANGED << batch_size, bucket, state_file, progress_file, download_to,
                  pc, state, count, total, progress, fetched,
                  pushed, unflushed, faults, crashes, nNext, pages,
                  cycleKeys, lastPage, opsAfter >>
  /\ UNCHANGED << failed_batches, raised, pushCount, ledgerOp, lastToken,
                  dry_run, dry_run_batches_processed >>

\* -------------------------------------------------------------------- upload
\* upload() finding no *.wav file in the outbound directory: it returns
\* from inside the first step, before "Update progress tracking".
UploadNothing ==
  /\ pc = "idle"
  /\ phase \in {"staged", "processed"}
  /\ glob_wav(upload_from) = {}
  /\ phase' = "ready"
  /\ NoteOp("upload")
  /\ UNCHANGED << batch_size, bucket, state_file, progress_file, download_to,
                  upload_from, pc, state, count, total, progress, fetched, pushed, unflushed, faults, crashes, nNext, pages, cycleKeys, lastPage >>
  /\ UNCHANGED << failed_batches, raised, pushCount, ledgerOp, lastToken,
                  dry_run, dry_run_batches_processed >>

\* uploaded_now with the keys of the failed pushes recorded as well.
uploaded_now_with_failed(failing) ==
  SortKeys({upload_key(f) : f \in glob_wav(upload_from)})

\* The keys upload() pushed with success, in the order of wave_paths, when
\* the upload_file calls of the files of `failing` raise.
uploaded_now(failing) ==
  SelectSeq(SortKeys({upload_key(f) : f \in glob_wav(upload_from)}),
            LAMBDA k : k \notin {upload_key(f) : f \in failing})

\* upload() with output files: the push loop, then increment_progress() and
\* save().
Upload ==
  /\ pc = "idle"
  /\ phase \in {"staged", "processed"}
  /\ glob_wav(upload_from) # {}
  /\ \E failing \in SUBSET glob_wav(upload_from) :
       \E done \in {uploaded_now(failing)} :
           /\ Cardinality(failing) <= MaxIncidents - faults - crashes
           /\ faults' = faults + Cardinality(failing)
           /\ bucket' = bucket \cup Range(done)
           /\ pushed' = pushed \cup Range(done)
           /\ pushCount' = count_push(pushCount, Range(done))
           /\ UNCHANGED << ledgerOp, lastToken,
                  dry_run, dry_run_batches_processed >>
           /\ progress' = increment_progress(append_all_uploaded(progress, done))
  /\ progress_file' = ProgressInfo_save(progress')
  /\ phase' = "ready"
  /\ NoteOp("upload")
  /\ UNCHANGED << batch_size, state_file, download_to, upload_from, pc, state,
                  count, total, fetched, unflushed, crashes,
                  nNext, pages, cycleKeys, lastPage >>
  /\ UNCHANGED << failed_batches, raised >>

\* upload_metadata(): every collected file is pushed under metadata_prefix;
\* a failing push is logged and the loop goes on. The driver calls it once
\* has_next() is False, after the last cycle has ended.
UploadMetadata ==
  /\ pc = "idle"
  /\ phase = "ready"
  /\ ~has_next
  /\ LET files == metadata_files
     IN  \E failing \in SUBSET files :
           LET done == {metadata_key(f) : f \in files \ failing}
           IN  /\ Cardinality(failing) <= MaxIncidents - faults - crashes
               /\ faults' = faults + Cardinality(failing)
               /\ bucket' = bucket \cup done
               /\ pushed' = pushed \cup done
  /\ NoteOp("upload_metadata")
  /\ UNCHANGED << batch_size, state_file, progress_file, download_to,
                  upload_from, pc, phase, state, count, total, progress,
                  fetched, unflushed, crashes, nNext, pages,
                  cycleKeys, lastPage >>
  /\ UNCHANGED << failed_batches, raised, pushCount, ledgerOp, lastToken,
                  dry_run, dry_run_batches_processed >>

\* --------------------------------------------------------- crash and restart
\* The keys of a sequence that the ledger file does not hold.
NotOnDisk(ks) ==
  Range(ks) \ (IF progress_file = <<>> THEN {}
               ELSE Range(progress_file[1].downloaded_keys))

\* What a process termination does to the memory of the process and to the
\* history: everything the process held is gone.
Terminated ==
  /\ faults + crashes < MaxIncidents
  /\ crashes' = crashes + 1
  /\ unflushed' = unflushed \cup NotOnDisk(progress.downloaded_keys)
  /\ pc' = "dead"
  /\ phase' = "ready"
  /\ state' = BatcherState_load(<<>>)
  /\ count' = 0
  /\ total' = 0
  /\ progress' = ProgressInfo_init(0)
  /\ pages' = 0
  /\ cycleKeys' = <<>>
  /\ lastPage' = <<>>
  /\ opsAfter' = {}
  /\ failed_batches' = 0
  /\ raised' = 0

\* The process ends (crash, kill, interrupt) between two steps: the files
\* and the remote store stay as they are.
Crash ==
  /\ pc # "dead"
  /\ Terminated
  /\ UNCHANGED << batch_size, bucket, state_file, progress_file, download_to,
                  upload_from, fetched, pushed, faults, nNext >>
  /\ UNCHANGED << pushCount, ledgerOp, lastToken,
                  dry_run, dry_run_batches_processed >>

\* The process ends inside the push loop of upload(): the files of `done`
\* were pushed, the ledger was not saved.
UploadCrash ==
  /\ pc = "idle"
  /\ phase \in {"staged", "processed"}
  /\ \E done \in (SUBSET glob_wav(upload_from)) \ {{}} :
       /\ bucket' = bucket \cup {upload_key(f) : f \in done}
       /\ pushed' = pushed \cup {upload_key(f) : f \in done}
       /\ pushCount' = count_push(pushCount, {upload_key(f) : f \in done})
       /\ UNCHANGED << ledgerOp, lastToken,
                  dry_run, dry_run_batches_processed >>
  /\ Terminated
  /\ UNCHANGED << batch_size, state_file, progress_file, download_to,
                  upload_from, fetched, faults, nNext >>

\* A new process constructs its S3Batcher on the same metadata path:
\* BatcherState(metadata_path), counter(), ProgressInfo(...), progress.load().
\* counter() returns 0 when its listing fails.
Restart ==
  /\ pc = "dead"
  /\ \E ok \in BOOLEAN :
       /\ ok \/ faults + crashes < MaxIncidents
       /\ faults' = IF ok THEN faults ELSE faults + 1
       /\ total' = counter(bucket, ok)
  /\ state' = BatcherState_load(state_file)
  /\ count' = 0
  /\ progress' = ProgressInfo_load(ProgressInfo_init(total'), progress_file)
  /\ pc' = "idle"
  /\ UNCHANGED << batch_size, bucket, state_file, progress_file, download_to,
                  upload_from, phase, fetched, pushed, unflushed,
                  crashes, nNext, pages, cycleKeys, lastPage,
                  opsAfter >>
  /\ UNCHANGED << failed_batches, raised, pushCount, ledgerOp, lastToken,
                  dry_run, dry_run_batches_processed >>

\* ----------------------------------------------------------- specification
Next ==
  \/ NextBatchBegin
  \/ NextBatchListFails
  \/ NextBatchListEmpty
  \/ NextBatchListPage
  \/ NextBatchSave
  \/ Process
  \/ UploadNothing
  \/ Upload
  \/ UploadMetadata
  \/ Crash
  \/ UploadCrash
  \/ Restart

Spec == Init /\ [][Next]_vars

\* ------------------------------------------------------------------ driver
\* run_processing_pipeline: while batcher.has_next(): next_batch(), the
\* processing step, upload() when chunks were created; every exception of a
\* cycle is caught and counted; upload_metadata() after the loop. One
\* process, no termination from outside.

\* The loop test passed: batcher.next_batch() is called (its preparation).
\* The history counter nNext stops at MaxCycles.
DriverNextBatch ==
  /\ pc = "idle"
  /\ phase = "ready"
  /\ has_next
  /\ ~dry_run
  /\ nNext' = Min(nNext + 1, MaxCycles)
  /\ count' = 0
  /\ download_to' = {}
  /\ upload_from' = {}
  /\ progress' = ProgressInfo_load(progress, progress_file)
  /\ pc' = "loop"
  /\ pages' = 0
  /\ cycleKeys' = <<>>
  /\ NoteOp("next_batch")
  /\ UNCHANGED << batch_size, bucket, state_file, progress_file, phase, state,
                  total, fetched, pushed, unflushed, faults, crashes, lastPage,
                  failed_batches, raised, pushCount, ledgerOp, lastToken,
                  dry_run, dry_run_batches_processed >>

\* The processing step raises (outside the per-file try of preprocess(), or
\* in the driver's CSV writing) after some output files were written.
ProcessRaises ==
  /\ pc = "idle"
  /\ phase = "staged"
  /\ faults + crashes < MaxIncidents
  /\ faults' = faults + 1
  /\ \E n \in [glob_wav(download_to) -> 0..MaxChunks] :
       upload_from' = upload_from \cup
         UNION { {chunk_file(f, i) : i \in 0..(n[f] - 1)} :
                 f \in glob_wav(download_to) }
  /\ failed_batches' = failed_batches + 1
  /\ raised' = raised + 1
  /\ phase' = "ready"
  /\ UNCHANGED << batch_size, bucket, state_file, progress_file, download_to,
                  pc, state, count, total, progress, fetched, pushed,
                  unflushed, crashes, nNext, pages, cycleKeys, lastPage,
                  opsAfter, pushCount, ledgerOp, lastToken,
                  dry_run, dry_run_batches_processed >>

\* batch_chunks > 0: batcher.upload()
DriverUpload ==
  /\ phase = "processed"
  /\ Upload

\* upload() raises inside its push loop (audio_path.stat() is outside the
\* try) after the files of `done` were pushed and appended: neither
\* increment_progress() nor save() is reached.
UploadRaises ==
  /\ pc = "idle"
  /\ phase = "processed"
  /\ glob_wav(upload_from) # {}
  /\ faults + crashes < MaxIncidents
  /\ faults' = faults + 1
  /\ \E done \in (SUBSET glob_wav(upload_from)) \ {glob_wav(upload_from)} :
       \E keys \in {{upload_key(f) : f \in done}} :
           /\ bucket' = bucket \cup keys
           /\ pushed' = pushed \cup keys
           /\ pushCount' = count_push(pushCount, keys)
           /\ UNCHANGED << ledgerOp, lastToken,
                  dry_run, dry_run_batches_processed >>
           /\ progress' = append_all_uploaded(progress, SortKeys(keys))
  /\ failed_batches' = failed_batches + 1
  /\ raised' = raised + 1
  /\ phase' = "ready"
  /\ NoteOp("upload")
  /\ UNCHANGED << batch_size, state_file, progress_file, download_to,
                  upload_from, pc, state, count, total, fetched, unflushed,
                  crashes, nNext, pages, cycleKeys, lastPage >>

\* batch_chunks = 0: "No chunks created in this batch", upload() is not
\* called.
SkipUpload ==
  /\ pc = "idle"
  /\ phase = "processed"
  /\ glob_wav(upload_from) = {}
  /\ phase' = "ready"
  /\ UNCHANGED << batch_size, bucket, state_file, progress_file, download_to,
                  upload_from, pc, state, count, total, progress, fetched,
                  pushed, unflushed, faults, crashes, nNext, pages, cycleKeys,
                  lastPage, opsAfter, failed_batches, raised, pushCount, ledgerOp, lastToken,
                  dry_run, dry_run_batches_processed >>

DriverNext ==
  \/ DriverNextBatch
  \/ NextBatchListFails
  \/ NextBatchListEmpty
  \/ NextBatchListPage
  \/ NextBatchSave
  \/ Process
  \/ ProcessRaises
  \/ DriverUpload
  \/ UploadRaises
  \/ SkipUpload
  \/ UploadMetadata

\* The driver is a sequential program: it takes its next step whenever it
\* has one.
SpecDriver == Init /\ [][DriverNext]_vars /\ WF_vars(DriverNext)

\* ------------------------------------------------- the driver with --dry_run
\* run_processing_pipeline with args.dry_run set: every cycle ends at the
\* "continue" after next_batch(). initialize_components builds the batcher
\* without its dry_run argument (dry_run = FALSE, the listing and the
\* fetches are the real ones); S3Batcher(dry_run=True) is the batcher's own
\* dry-run mode.

\* self.total of a batcher in dry-run mode (127 in the source).
DryRunTotal == 3

InitDryRun ==
  /\ dry_run \in BOOLEAN
  /\ dry_run_batches_processed = 0
  /\ batch_size \in 1..MaxBatchSize
  /\ bucket \in Namespaces
  /\ state_file = <<>>
  /\ progress_file = <<>>
  /\ download_to = {}
  /\ upload_from = {}
  /\ pc = "idle"
  /\ phase = "ready"
  /\ state = BatcherState_load(<<>>)
  /\ count = 0
  /\ total = IF dry_run THEN DryRunTotal ELSE counter(bucket, TRUE)
  /\ progress = ProgressInfo_init(total)
  /\ fetched = {}
  /\ pushed = {}
  /\ unflushed = {}
  /\ faults = 0
  /\ crashes = 0
  /\ nNext = 0
  /\ pages = 0
  /\ cycleKeys = <<>>
  /\ lastPage = <<>>
  /\ opsAfter = {}
  /\ failed_batches = 0
  /\ raised = 0
  /\ pushCount = NoPushes
  /\ ledgerOp = "new"
  /\ lastToken = <<>>

\* files_in_this_batch of _next_batch_dry_run
files_in_this_batch ==
  Min(batch_size, total - dry_run_batches_processed * batch_size)

\* The loop test passed and next_batch() runs _next_batch_dry_run: count = 0,
\* clear_local_dirs(), then one iteration per simulated file. An iteration
\* makes the parent directory, adds 1 to count and logs
\* fake_path.stat().st_size; no statement writes fake_path and the inbound
\* directory has just been emptied, so stat() raises FileNotFoundError in
\* the first iteration. The exception leaves next_batch() before
\* _dry_run_batches_processed is raised, and the driver's except clause
\* counts the cycle as failed. With no file to simulate the loop is empty
\* and the call returns. The counters stop at MaxCycles.
next_batch_dry_run ==
  /\ pc = "idle"
  /\ phase = "ready"
  /\ has_next
  /\ dry_run
  /\ nNext' = Min(nNext + 1, MaxCycles)
  /\ download_to' = {}
  /\ upload_from' = {}
  /\ IF files_in_this_batch >= 1
       THEN /\ count' = 1
            /\ failed_batches' = Min(failed_batches + 1, MaxCycles)
            /\ raised' = Min(raised + 1, MaxCycles)
            /\ UNCHANGED << dry_run_batches_processed, phase >>
       ELSE /\ count' = 0
            /\ dry_run_batches_processed' = dry_run_batches_processed + 1
            /\ phase' = "staged"
            /\ UNCHANGED << failed_batches, raised >>
  /\ UNCHANGED << batch_size, bucket, state_file, progress_file, pc, state,
                  total, progress, fetched, pushed, unflushed, faults,
                  crashes, pages, cycleKeys, lastPage, opsAfter, pushCount,
                  ledgerOp, lastToken, dry_run >>

\* if args.dry_run: continue -- the cycle ends after next_batch() returned.
DryRunContinue ==
  /\ pc = "idle"
  /\ phase = "staged"
  /\ phase' = "ready"
  /\ UNCHANGED << batch_size, bucket, state_file, progress_file, download_to,
                  upload_from, pc, state, count, total, progress, fetched,
                  pushed, unflushed, faults, crashes, nNext, pages, cycleKeys,
                  lastPage, opsAfter, failed_batches, raised, pushCount,
                  ledgerOp, lastToken, dry_run, dry_run_batches_processed >>

DryRunNext ==
  \/ next_batch_dry_run
  \/ DriverNextBatch
  \/ NextBatchListFails
  \/ NextBatchListEmpty
  \/ NextBatchListPage
  \/ NextBatchSave
  \/ DryRunContinue
  \/ UploadMetadata

\* The loop is sequential code: a step that can be taken is taken.
SpecDryRun == InitDryRun /\ [][DryRunNext]_vars /\ WF_vars(DryRunNext)

\* ------------------------------------------------- recordings that are split
\* ProcessSplit writing chunks for every top-level wave file of the
\* namespace, staged or not.
ProcessSplit_of_unstaged_files ==
  /\ pc = "idle"
  /\ phase = "staged"
  /\ phase' = "processed"
  /\ \E n \in [glob_wav(bucket) -> 0..MaxSplit] :
       upload_from' = upload_from \cup
         UNION { {chunk_file(f, i) : i \in 0..(n[f] - 1)} :
                 f \in glob_wav(bucket) }
  /\ UNCHANGED << batch_size, bucket, state_file, progress_file, download_to,
                  pc, state, count, total, progress, fetched,
                  pushed, unflushed, faults, crashes, nNext, pages,
                  cycleKeys, lastPage, opsAfter >>
  /\ UNCHANGED << failed_batches, raised, pushCount, ledgerOp, lastToken,
                  dry_run, dry_run_batches_processed >>

\* Preprocessor.preprocess() on recordings long enough to be split: every
\* file that glob("*.wav") finds in the inbound directory yields between 0
\* and MaxSplit output files.
ProcessSplit ==
  /\ pc = "idle"
  /\ phase = "staged"
  /\ phase' = "processed"
  /\ \E n \in [glob_wav(download_to) -> 0..MaxSplit] :
       upload_from' = upload_from \cup
         UNION { {chunk_file(f, i) : i \in 0..(n[f] - 1)} :
                 f \in glob_wav(download_to) }
  /\ UNCHANGED << batch_size, bucket, state_file, progress_file, download_to,
                  pc, state, count, total, progress, fetched,
                  pushed, unflushed, faults, crashes, nNext, pages,
                  cycleKeys, lastPage, opsAfter >>
  /\ UNCHANGED << failed_batches, raised, pushCount, ledgerOp, lastToken,
                  dry_run, dry_run_batches_processed >>

\* The driver's cycles with that processing step.
SplitNext ==
  \/ DriverNextBatch
  \/ NextBatchListFails
  \/ NextBatchListEmpty
  \/ NextBatchListPage
  \/ NextBatchSave
  \/ ProcessSplit
  \/ DriverUpload
  \/ SkipUpload
  \/ UploadMetadata

SpecSplit == Init /\ [][SplitNext]_vars

\* ------------------------------------------------- ProgressInfo on its own
\* The ledger-level specification: the methods of ProgressInfo called in any
\* order on one metadata path, as tests/test_progress.py does, with new
\* instances constructed on the same path and a progress.json that other
\* programs may remove or replace.
LedgerKeys == {K_in1, K_a}

\* What the ledger-level steps leave alone.
LedgerUnchanged ==
  UNCHANGED << batch_size, bucket, state_file, download_to, upload_from, pc,
               phase, state, count, fetched, pushed, unflushed, faults,
               crashes, nNext, pages, cycleKeys, lastPage, opsAfter,
               failed_batches, raised, pushCount, lastToken,
                  dry_run, dry_run_batches_processed >>

\* One ProgressInfo has been constructed; no batcher is at work.
InitLedger ==
  /\ Init
  /\ batch_size = 1
  /\ bucket = {}

\* ProgressInfo(metadata_path, total_expected): a new instance on the path.
LedgerNew ==
  /\ \E t \in 0..MaxTotal :
       /\ total' = t
       /\ progress' = ProgressInfo_init(t)
  /\ ledgerOp' = "new"
  /\ UNCHANGED progress_file
  /\ LedgerUnchanged

\* progress.append_dowloaded(key)
LedgerAppendDownloaded ==
  /\ Len(progress.downloaded_keys) + Len(progress.uploaded_keys) < MaxLedgerLen
  /\ \E k \in LedgerKeys : progress' = append_dowloaded(progress, k)
  /\ ledgerOp' = "append_dowloaded"
  /\ UNCHANGED << progress_file, total >>
  /\ LedgerUnchanged

\* progress.append_uploaded(key)
LedgerAppendUploaded ==
  /\ Len(progress.downloaded_keys) + Len(progress.uploaded_keys) < MaxLedgerLen
  /\ progress' = append_uploaded(progress, K_out1)
  /\ ledgerOp' = "append_uploaded"
  /\ UNCHANGED << progress_file, total >>
  /\ LedgerUnchanged

\* progress.increment_progress()
LedgerIncrement ==
  /\ progress.batch_count < MaxLedgerBatches
  /\ progress' = increment_progress(progress)
  /\ ledgerOp' = "increment_progress"
  /\ UNCHANGED << progress_file, total >>
  /\ LedgerUnchanged

\* progress.save()
LedgerSave ==
  /\ progress_file' = ProgressInfo_save(progress)
  /\ ledgerOp' = "save"
  /\ UNCHANGED << progress, total >>
  /\ LedgerUnchanged

\* progress.load()
LedgerLoad ==
  /\ progress' = ProgressInfo_load(progress, progress_file)
  /\ ledgerOp' = "load"
  /\ UNCHANGED << progress_file, total >>
  /\ LedgerUnchanged

\* progress.json is removed, is left without a JSON object in it (save()
\* opens it with "w" before json.dump writes), or is replaced by a
\* dictionary holding batch_count only.
LedgerFileReplaced ==
  /\ progress_file' \in { <<>>, << Unparsable >>, << [batch_count |-> 1] >> }
  /\ ledgerOp' = "file_replaced"
  /\ UNCHANGED << progress, total >>
  /\ LedgerUnchanged

LedgerNext ==
  \/ LedgerNew
  \/ LedgerAppendDownloaded
  \/ LedgerAppendUploaded
  \/ LedgerIncrement
  \/ LedgerSave
  \/ LedgerLoad
  \/ LedgerFileReplaced

SpecLedger == InitLedger /\ [][LedgerNext]_vars

\* ------------------------------------------------------------------ claims
\* Admissibility as the specification words it: the lowercased key ends
\* with one of the configured extensions and the key starts with neither
\* reserved prefix.
Admissible(key) ==
  /\ \E i \in 1..Len(include_ext) : EndsWith(Lower(key), include_ext[i])
  /\ ~StartsWith(key, processed_prefix \o <<"/">>)
  /\ ~StartsWith(key, metadata_prefix \o <<"/">>)

\* The ledger as the file holds it, empty when there is no file.
OnDisk == IF progress_file = <<>> THEN ProgressInfo_init(0) ELSE progress_file[1]

\* C1: in a run without crash and without failing remote call, once
\* has_next() is False every admissible object of the namespace has been
\* fetched and its key is in downloaded_keys.
C1_AllFetchedWhenExhausted ==
  (pc = "idle" /\ crashes = 0 /\ faults = 0 /\ ~has_next) =>
    \A k \in bucket :
      Admissible(k) => (k \in fetched /\ k \in Range(progress.downloaded_keys))

\* C2: on one instance, once has_next() is False it stays False, whatever
\* is called next.
C2_ExhaustionMonotone ==
  [][(pc # "dead" /\ pc' # "dead" /\ ~has_next) => ~has_next']_vars

\* next_batch(), upload() and upload_metadata() have all been called on an
\* exhausted instance.
C2_Witness ==
  /\ pc = "idle"
  /\ ~has_next
  /\ opsAfter = {"next_batch", "upload", "upload_metadata"}

\* C3: when the state file records completed, the process that works on
\* that metadata path is exhausted too, a restarted one included.
C3_ExhaustedAfterRestart ==
  (pc = "idle" /\ state_file # <<>> /\ state_file[1].completed) => ~has_next

\* C4: a key fetched by a process that ended before the ledger was saved is
\* fetched again after the restart: when the restarted run is exhausted and
\* has saved its ledger, the ledger holds that key exactly once.
C4_RefetchedOnce ==
  (/\ pc = "idle"
   /\ phase = "ready"
   /\ ~has_next
   /\ faults = 0
   /\ progress_file # <<>>
   /\ progress_file[1] = progress) =>
    \A k \in unflushed : Count(OnDisk.downloaded_keys, k) = 1

\* C5: a next_batch() call never fetches, appends or stages more than
\* batch_size objects.
C5_BatchSizeBound ==
  /\ count <= batch_size
  /\ Len(cycleKeys) <= batch_size
  /\ Cardinality(download_to) <= batch_size

\* A next_batch() call has returned after two pages or more with the batch
\* full, the last page holding a valid key that did not fit.
C5_Witness ==
  /\ pc = "idle"
  /\ phase = "staged"
  /\ pages >= 2
  /\ count = batch_size
  /\ \E k \in Range(valid_files(lastPage)) : k \notin Range(cycleKeys)

\* C6: when next_batch() returns with fewer than batch_size objects staged
\* (no call failed), no admissible object of the namespace is unfetched.
C6_FewerOnlyWhenNoneLeft ==
  (pc = "idle" /\ phase = "staged" /\ count < batch_size
     /\ faults = 0 /\ crashes = 0) =>
    \A k \in bucket : Admissible(k) => k \in fetched

\* C7: a key recorded in downloaded_keys is never appended a second time.
C7_NoSecondFetch ==
  \A i, j \in 1..Len(progress.downloaded_keys) :
    i # j => progress.downloaded_keys[i] # progress.downloaded_keys[j]

\* The admissible keys among those a namespace of the model can hold.
AdmissibleKeys == {k \in Universe : Admissible(k)}

\* The three keys of the specification's example, decided by the filters of
\* download_batch_files() and of counter().
ExampleKeysDecided ==
  /\ ~is_valid_file(<<"o", "u", "t", "/", "a", ".", "w", "a", "v">>)
  /\ is_valid_file(<<"i", "n", "/", "a", ".", "w", "a", "v">>)
  /\ ~is_valid_file(<<"i", "n", "/", "a", ".", "t", "x", "t">>)
  /\ ~counter_accepts(<<"o", "u", "t", "/", "a", ".", "w", "a", "v">>)
  /\ counter_accepts(<<"i", "n", "/", "a", ".", "w", "a", "v">>)
  /\ ~counter_accepts(<<"i", "n", "/", "a", ".", "t", "x", "t">>)

\* C8: download_batch_files() keeps exactly the admissible keys of a page,
\* counter() counts exactly the admissible keys of the namespace, and the
\* three example keys are decided as the specification says.
C8_FilterCorrect ==
  /\ bucket \subseteq Universe
  /\ valid_files(lastPage) = SelectSeq(lastPage, LAMBDA k : k \in AdmissibleKeys)
  /\ fetched \subseteq AdmissibleKeys
  /\ pc # "dead" =>
       \/ total = Cardinality(bucket \cap AdmissibleKeys)
       \/ total = 0 /\ faults > 0
  /\ ExampleKeysDecided

\* A page held a key this program pushed, which the filters dropped, after
\* the key with the upper-case extension was fetched.
C8_Witness ==
  /\ K_bW \in fetched
  /\ Range(lastPage) \cap pushed # {}
  /\ Range(valid_files(lastPage)) \cap pushed = {}
  /\ total = 3

\* C9: no key pushed by upload() or upload_metadata() is ever fetched or
\* recorded in downloaded_keys.
C9_NoReingest ==
  /\ fetched \cap pushed = {}
  /\ Range(progress.downloaded_keys) \cap pushed = {}
  /\ Range(OnDisk.downloaded_keys) \cap pushed = {}

\* In a run without crash, a listing page of next_batch() held a key that
\* upload() had pushed before.
C9_Witness ==
  /\ pc = "idle"
  /\ crashes = 0
  /\ \E k \in pushed \cap Range(lastPage) :
       StartsWith(k, processed_prefix \o <<"/">>)

\* C10: upload() finding the outbound directory empty still raises
\* batch_count by one and saves the ledger.
C10_EmptyUploadAdvances ==
  [][(/\ pc = "idle" /\ pc' = "idle"
      /\ phase \in {"staged", "processed"} /\ phase' = "ready"
      /\ glob_wav(upload_from) = {}) =>
       (/\ progress'.batch_count = progress.batch_count + 1
        /\ progress_file' = ProgressInfo_save(progress'))]_vars

\* The number of upload_file calls of upload() that succeeded so far.
RECURSIVE SumOver(_, _)
SumOver(f, S) ==
  IF S = {} THEN 0
  ELSE LET k == CHOOSE x \in S : TRUE IN f[k] + SumOver(f, S \ {k})

PushesDone == SumOver(pushCount, DOMAIN pushCount)

\* C11: the total_chunks of the ledger file never exceeds the number of
\* pushes of upload() that succeeded, and the uploaded_keys of the file hold
\* each key at most as often as it was pushed with success.
C11_PersistedUploadsWerePushed ==
  /\ OnDisk.total_chunks <= PushesDone
  /\ Len(OnDisk.uploaded_keys) <= PushesDone
  /\ \A k \in Range(OnDisk.uploaded_keys) :
       /\ k \in DOMAIN pushCount
       /\ Count(OnDisk.uploaded_keys, k) <= pushCount[k]

\* After a termination inside the push loop and a restart, the ledger file
\* records fewer chunks than were pushed, and at least one.
C11_Witness ==
  /\ pc = "idle"
  /\ crashes > 0
  /\ OnDisk.total_chunks >= 1
  /\ OnDisk.total_chunks < PushesDone

\* C12: next_batch() empties both staging directories before its first
\* listing call, and when it returns the inbound directory holds exactly the
\* objects fetched in this call and the outbound directory is empty.
C12_StagingReset ==
  /\ (pc = "loop" /\ pages = 0) => (download_to = {} /\ upload_from = {})
  /\ (pc = "idle" /\ phase = "staged") =>
       (download_to = Range(cycleKeys) /\ upload_from = {})

\* next_batch() has returned with objects staged while an object fetched by
\* an earlier cycle of the same run is no longer staged.
C12_Witness ==
  /\ pc = "idle"
  /\ phase = "staged"
  /\ crashes = 0
  /\ download_to # {}
  /\ fetched \ download_to # {}

\* The cursor after a listing call is further in the namespace than
\* before it, or the namespace is exhausted.
CursorAdvanced ==
  \/ state'.completed
  \/ /\ state'.token # NoToken
     /\ state.token = NoToken \/ LexLess(state.token, state'.token)

\* C13: every listing call of next_batch() advances the cursor, whatever
\* the page yields, and the driver loop reaches the exhausted state.
C13_DriverTerminates ==
  /\ [][pages' = pages + 1 => CursorAdvanced]_vars
  /\ <>(pc = "idle" /\ phase = "ready" /\ ~has_next)

\* The driver is exhausted after a cycle whose pages held no admissible
\* key: nothing was fetched, no call failed.
C13_Witness ==
  /\ pc = "idle"
  /\ ~has_next
  /\ faults = 0
  /\ nNext >= 2
  /\ pages >= 1
  /\ lastPage # <<>>
  /\ count = 0

\* C14: an exception that reaches the driver inside a cycle is counted in
\* failed_batches and the driver is back at its loop test; the run goes on.
C14_FailedCycleCounted ==
  [][/\ raised' # raised =>
         (/\ failed_batches' = failed_batches + 1
          /\ pc' = "idle"
          /\ phase' = "ready")
     /\ failed_batches' = raised'
     /\ pc' # "dead"]_vars

\* After a failed cycle a later next_batch() has returned.
C14_Witness ==
  /\ failed_batches >= 1
  /\ pc = "idle"
  /\ phase = "staged"

\* C19: when a cycle of the driver ends without an exception, the ledger
\* file holds every key fetched in that cycle.
C19_LedgerSavedEachCycle ==
  [][(/\ pc = "idle" /\ pc' = "idle"
      /\ phase = "processed" /\ phase' = "ready"
      /\ raised' = raised) =>
       Range(cycleKeys) \subseteq Range(OnDisk'.downloaded_keys)]_vars

\* The two ledgers agree on every field.
SameLedger(p, q) ==
  /\ q.downloaded_keys = p.downloaded_keys
  /\ q.uploaded_keys = p.uploaded_keys
  /\ q.total_expected = p.total_expected
  /\ q.total_chunks = p.total_chunks
  /\ q.batch_count = p.batch_count
  /\ q.before_process_count = p.before_process_count
  /\ q.after_process_count = p.after_process_count

\* C15: save() followed by load() on a new ProgressInfo of the same path
\* restores every field exactly, total_expected included, whatever
\* total_expected the new instance was constructed with; and a load() step of
\* a new instance on a saved file ends with the fields the file holds.
C15_RoundTrip ==
  /\ [](\A t \in 0..MaxTotal :
          SameLedger(progress,
                     ProgressInfo_load(ProgressInfo_init(t),
                                       ProgressInfo_save(progress))))
  /\ [][(/\ ledgerOp = "new" /\ ledgerOp' = "load"
         /\ progress_file # <<>>
         /\ DOMAIN progress_file[1] = DOMAIN ProgressInfo_init(0))
        => SameLedger(progress_file[1], progress')]_vars

\* A new instance constructed with another total_expected has loaded a saved
\* ledger holding keys of both lists and a counted batch.
C15_Witness ==
  /\ ledgerOp = "load"
  /\ progress_file = ProgressInfo_save(progress)
  /\ progress.total_expected # total
  /\ progress.downloaded_keys # <<>>
  /\ progress.uploaded_keys # <<>>
  /\ progress.batch_count >= 1

\* C16: load() with no progress file, or with a file that cannot be parsed,
\* completes and leaves every field of the ledger as it was.
C16_LoadKeepsFieldsWithoutFile ==
  [][(/\ ledgerOp' = "load"
      /\ (progress_file = <<>> \/ progress_file = << Unparsable >>))
     => SameLedger(progress, progress')]_vars

\* load() has just run on an unparsable file with keys and a counted batch
\* in memory.
C16_Witness ==
  /\ ledgerOp = "load"
  /\ progress_file = << Unparsable >>
  /\ progress.downloaded_keys # <<>>
  /\ progress.batch_count >= 1

\* What increment_progress() does to a ledger p, giving q.
Incremented(p, q) ==
  /\ q.batch_count = p.batch_count + 1
  /\ q.before_process_count = Len(p.downloaded_keys)
  /\ q.after_process_count = Len(p.uploaded_keys)
  /\ q.downloaded_keys = p.downloaded_keys
  /\ q.uploaded_keys = p.uploaded_keys
  /\ q.total_chunks = p.total_chunks
  /\ q.total_expected = p.total_expected

\* C17: increment_progress() raises batch_count by one, takes the two
\* snapshots and leaves the rest alone; and every upload() call that returns
\* has performed it once, after its pushes, and has saved the result.
C17_UploadIncrementsOnce ==
  /\ [](Incremented(progress, increment_progress(progress)))
  /\ [][(/\ pc = "idle" /\ pc' = "idle"
         /\ phase \in {"staged", "processed"} /\ phase' = "ready")
        => (/\ progress'.batch_count = progress.batch_count + 1
            /\ progress'.before_process_count = Len(progress'.downloaded_keys)
            /\ progress'.after_process_count = Len(progress'.uploaded_keys)
            /\ progress'.downloaded_keys = progress.downloaded_keys
            /\ progress'.total_chunks = Len(progress'.uploaded_keys)
                                         - Len(progress.uploaded_keys)
                                         + progress.total_chunks
            /\ progress_file' = ProgressInfo_save(progress'))]_vars

\* The successful upload_file calls of upload() recorded for key k.
Pushes(f, k) == IF k \in DOMAIN f THEN f[k] ELSE 0

\* The keys a step has appended to uploaded_keys.
AppendedKeys ==
  SubSeq(progress'.uploaded_keys, Len(progress.uploaded_keys) + 1,
         Len(progress'.uploaded_keys))

IsPrefix(s, t) == Len(s) <= Len(t) /\ SubSeq(t, 1, Len(s)) = s

\* C20: within one process every step leaves the earlier downloaded_keys and
\* the earlier uploaded_keys as prefixes of the later ones.
C20_LedgerAppendOnly ==
  [][(pc # "dead" /\ pc' # "dead")
     => (/\ IsPrefix(progress.downloaded_keys, progress'.downloaded_keys)
         /\ IsPrefix(progress.uploaded_keys, progress'.uploaded_keys))]_vars

\* The most recent listing response is known to the process at work: it
\* received it in the next_batch() call it is in or has last made, or the
\* state file holds the cursor of that response.
LastResponseKnown ==
  /\ lastToken # <<>>
  /\ \/ pages > 0
     \/ state_file # <<>> /\ state_file[1].token = lastToken[1]

\* C21: the BatcherState of the process at work has completed set exactly
\* when the most recent listing response carried no continuation token.
C21_CompletedIffNoToken ==
  (pc # "dead" /\ LastResponseKnown) =>
    (state.completed <=> lastToken[1] = NoToken)

\* C22: when next_batch() has consumed a listing page and goes on to the
\* next listing request, batcher_state.json holds the cursor that page
\* returned, so that a crash from here on finds it on disk.
C22_StateSavedAfterEachPage ==
  (pc = "loop" /\ pages > 0) =>
    (/\ state_file # <<>>
     /\ state_file[1].token = lastToken[1]
     /\ state_file[1].token = state.token)

\* The step is the first listing response a restarted process receives.
FirstListingAfterRestart ==
  /\ crashes > 0
  /\ pc = "loop" /\ pages = 0 /\ lastPage = <<>>
  /\ pages' = 1

\* C23: the first listing request of a restarted process carries the token
\* batcher_state.json holds, and carries none only when there is no state
\* file.
C23_ResumesFromSavedToken ==
  [][FirstListingAfterRestart =>
       (/\ state_file # <<>> => to_params(state) = state_file[1].token
        /\ to_params(state) = NoToken => state_file = <<>>)]_vars

\* C24: only admissible keys are fetched, staged and recorded in
\* downloaded_keys, and the count of the cycle is the number of keys the
\* cycle fetched, all of them admissible: an entry the filters reject takes
\* nothing of the budget.
C24_RejectedEntriesSkipped ==
  /\ fetched \subseteq AdmissibleKeys
  /\ download_to \subseteq AdmissibleKeys
  /\ Range(progress.downloaded_keys) \subseteq AdmissibleKeys
  /\ Range(OnDisk.downloaded_keys) \subseteq AdmissibleKeys
  /\ Range(cycleKeys) \subseteq AdmissibleKeys
  /\ pc # "dead" => count = Len(cycleKeys)
  /\ count <= batch_size

\* A cycle has filled a budget of two with admissible keys although a
\* rejected entry was listed before them.
C24_Witness ==
  /\ pc = "save"
  /\ batch_size = 2
  /\ count = 2
  /\ Len(cycleKeys) = 2
  /\ \E k \in bucket \ AdmissibleKeys :
       k \notin fetched /\ LexLess(k, cycleKeys[1])

\* The keys a step has appended to downloaded_keys.
AppendedDownloads ==
  SubSeq(progress'.downloaded_keys, Len(progress.downloaded_keys) + 1,
         Len(progress'.downloaded_keys))

\* C25: in a step of next_batch() that consumes a page with Contents, with
\* n failing fetches, no exception leaves the call, the keys appended to
\* downloaded_keys are the selected keys of the page but n of them, in the
\* order of the page, and the count of the cycle rises by their number:
\* a failed key is neither recorded nor counted and the keys after it are
\* still fetched.
C25_FetchFailureSkipsOneKey ==
  [][(pc = "loop" /\ pages' = pages + 1 /\ lastPage' # <<>>)
     => LET sel == selected_files(lastPage', count)
            n   == faults' - faults
        IN  /\ raised' = raised
            /\ pc' \in {"loop", "save"}
            /\ SubSeq(progress'.downloaded_keys, 1, Len(progress.downloaded_keys))
                 = progress.downloaded_keys
            /\ AppendedDownloads
                 = SelectSeq(sel, LAMBDA k : k \in Range(AppendedDownloads))
            /\ Len(AppendedDownloads) = Len(sel) - n
            /\ count' = count + Len(AppendedDownloads)
            /\ fetched' = fetched \cup Range(AppendedDownloads)
            /\ download_to' = download_to \cup Range(AppendedDownloads)]_vars

\* Of the two selected keys of a page the fetch of the first failed and the
\* second was fetched, recorded and counted.
C25_Witness ==
  /\ pc \in {"loop", "save"}
  /\ pages = 1 /\ nNext = 1
  /\ faults = 1
  /\ batch_size = 2
  /\ Len(lastPage) = 2
  /\ Range(lastPage) \subseteq AdmissibleKeys
  /\ cycleKeys = << lastPage[2] >>
  /\ count = 1
  /\ lastPage[1] \notin Range(progress.downloaded_keys)

\* C26: the total_chunks a process works with is the number of pushes of
\* upload() that have succeeded on the metadata path so far, restarts
\* included, and no step of a process lowers it.
C26_TotalChunksCountsPushes ==
  /\ [](pc # "dead" => progress.total_chunks = PushesDone)
  /\ [][(pc # "dead" /\ pc' # "dead")
        => progress'.total_chunks >= progress.total_chunks]_vars

\* C27 as stated: the ledger of the process and the ledger on disk never
\* hold more uploaded keys than downloaded keys.
C27_UploadedNoMoreThanDownloaded ==
  /\ Len(progress.uploaded_keys) <= Len(progress.downloaded_keys)
  /\ Len(OnDisk.uploaded_keys) <= Len(OnDisk.downloaded_keys)

\* Every uploaded key of the ledger p is the key of a chunk of a key that
\* p records as downloaded.
DerivedFromDownloads(p) ==
  \A k \in Range(p.uploaded_keys) :
    \E d \in Range(p.downloaded_keys), i \in 0..(MaxSplit - 1) :
      k = processed_prefix \o <<"/">> \o chunk_file(d, i)

\* C27 amended: every uploaded key is derived from a downloaded key of the
\* same ledger, in memory and on disk; one downloaded key may stand behind
\* several uploaded keys.
C27_UploadedDerivedFromDownloaded ==
  /\ DerivedFromDownloads(progress)
  /\ DerivedFromDownloads(OnDisk)

\* The saved ledger holds two uploaded keys for one downloaded key.
C27_Witness ==
  /\ Len(OnDisk.downloaded_keys) = 1
  /\ Len(OnDisk.uploaded_keys) = 2
  /\ OnDisk.total_chunks = 2

\* C28: whatever sequence of the constructor, append_dowloaded(),
\* append_uploaded(), increment_progress(), save() and load() has run,
\* total_chunks of the object equals the length of its uploaded_keys, and
\* so do the two entries of every dictionary that save() wrote.
C28_TotalChunksIsUploadedLength ==
  /\ progress.total_chunks = Len(progress.uploaded_keys)
  /\ \A data \in Range(progress_file) :
       "total_chunks" \in DOMAIN data
         => data.total_chunks = Len(data.uploaded_keys)

\* load() has just read a file that save() wrote with two uploaded keys,
\* and the object holds what a fresh object would hold after that load.
C28_Witness ==
  /\ ledgerOp = "load"
  /\ progress_file # <<>>
  /\ "uploaded_keys" \in DOMAIN progress_file[1]
  /\ Len(progress_file[1].uploaded_keys) = 2
  /\ progress = ProgressInfo_load(ProgressInfo_init(total), progress_file)

\* A next_batch() call ends in this step, by returning or by raising.
NextBatchEnds ==
  \/ dry_run /\ pc = "idle" /\ phase = "ready" /\ has_next /\ vars' # vars
  \/ pc = "save" /\ pc' = "idle"
  \/ pc = "loop" /\ pc' = "idle"

\* C29: with --dry_run the loop ends (has_next() is False at the loop
\* test at some point); when it has ended, next_batch() has been called
\* ceil(total / batch_size) times; and the call number k ends with count =
\* min(batch_size, total - (k - 1) * batch_size), the files it simulates,
\* so that the counts add up to total.
C29_DryRunTerminates ==
  /\ <>(pc = "idle" /\ phase = "ready" /\ ~has_next)
  /\ []((pc = "idle" /\ phase = "ready" /\ ~has_next)
          => nNext = dry_run_total_batches)
  /\ [][(NextBatchEnds /\ nNext' <= dry_run_total_batches)
          => count' = Min(batch_size, total - (nNext' - 1) * batch_size)]_vars

\* C30: when next_batch() has returned and the processing step is about to
\* run, the files that glob("*.wav") enumerates in the inbound directory
\* are all the files staged there.
C30_StagedFilesAreProcessed ==
  (pc = "idle" /\ phase = "staged") => glob_wav(download_to) = download_to
====
